---- MODULE Spec2Model ----
(***************************************************************************)
(* Model of the recipe store of cookbook2.py: the backing document         *)
(* data/recipes.json, the image directory data/images/, and the handlers   *)
(* that read and rewrite them (add form, delete button, JSON import,       *)
(* export, search filter).                                                 *)
(*                                                                         *)
(* Text is a sequence of characters (one-character strings; an identifier  *)
(* produced by uuid4 or a JSON field name is carried as one opaque chunk). *)
(* Python values are tagged records [ty, v] so that None, "", [] and {}    *)
(* stay distinct, as they do for json.dump and json.load.                  *)
(***************************************************************************)
EXTENDS Integers, Sequences, FiniteSets, TLC

(* ------------------------------ bounds -------------------------------- *)

\* Number of identifiers uuid4 hands out in one run of the model.
MaxAdds == 2

(* --------------------------- Python values ---------------------------- *)

None == [ty |-> "NoneType", v |-> <<>>]
Str(s) == [ty |-> "str", v |-> s]
List(xs) == [ty |-> "list", v |-> xs]
Dict(f) == [ty |-> "dict", v |-> f]
EmptyDict == Dict(<<>>)

\* bool(x) for the value kinds above
Truthy(x) ==
    CASE x.ty = "NoneType" -> FALSE
      [] x.ty = "str" -> Len(x.v) > 0
      [] x.ty = "list" -> Len(x.v) > 0
      [] x.ty = "dict" -> DOMAIN x.v # {}

\* dict.get(key) with the default None
Get(d, key) == IF key \in DOMAIN d.v THEN d.v[key] ELSE None

(* ------------------------------- JSON --------------------------------- *)

\* A JSON text is a sequence of tokens: punctuation, null, or a string
\* literal with its characters.
Tok(t) == [t |-> t, v |-> <<>>]
StrTok(s) == [t |-> "string", v |-> s]

RECURSIVE SetToSeq(_)
SetToSeq(S) ==
    IF S = {} THEN <<>>
    ELSE LET x == CHOOSE y \in S : TRUE IN <<x>> \o SetToSeq(S \ {x})

\* Field order of a recipe record as add_recipe builds it; any other key
\* follows in the order the dict holds it.
RecipeFields ==
    << <<"id">>, <<"title">>, <<"ingredients">>, <<"steps">>, <<"tags">>,
       <<"image">>, <<"created_at">> >>

KeyOrder(f) ==
    LET known == SelectSeq(RecipeFields, LAMBDA key : key \in DOMAIN f)
        rest == DOMAIN f \ {RecipeFields[i] : i \in 1..Len(RecipeFields)}
    IN known \o SetToSeq(rest)

RECURSIVE json_dumps(_)
RECURSIVE DumpItems(_)
RECURSIVE DumpMembers(_, _)

\* elements of a list, comma separated
DumpItems(xs) ==
    IF Len(xs) = 0 THEN <<>>
    ELSE IF Len(xs) = 1 THEN json_dumps(xs[1])
    ELSE json_dumps(xs[1]) \o <<Tok(",")>> \o DumpItems(Tail(xs))

\* members of an object, in key order, comma separated
DumpMembers(f, keys) ==
    IF Len(keys) = 0 THEN <<>>
    ELSE LET m == <<StrTok(keys[1]), Tok(":")>> \o json_dumps(f[keys[1]])
         IN IF Len(keys) = 1 THEN m
            ELSE m \o <<Tok(",")>> \o DumpMembers(f, Tail(keys))

json_dumps(x) ==
    CASE x.ty = "NoneType" -> <<Tok("null")>>
      [] x.ty = "str" -> <<StrTok(x.v)>>
      [] x.ty = "list" -> <<Tok("[")>> \o DumpItems(x.v) \o <<Tok("]")>>
      [] x.ty = "dict" ->
            <<Tok("{")>> \o DumpMembers(x.v, KeyOrder(x.v)) \o <<Tok("}")>>

\* Parser results: [ok, val, next]; next is the position after the value.
PFail == [ok |-> FALSE, val |-> None, next |-> 0]
POk(val, next) == [ok |-> TRUE, val |-> val, next |-> next]

IsTok(toks, i, t) == i <= Len(toks) /\ toks[i].t = t

RECURSIVE ParseValue(_, _)
RECURSIVE ParseElements(_, _, _)
RECURSIVE ParseMembers(_, _, _)

\* after "[" or after a ",": one element, then "," or "]"
ParseElements(toks, i, acc) ==
    LET e == ParseValue(toks, i)
    IN IF ~e.ok THEN PFail
       ELSE IF IsTok(toks, e.next, ",")
            THEN ParseElements(toks, e.next + 1, Append(acc, e.val))
       ELSE IF IsTok(toks, e.next, "]")
            THEN POk(List(Append(acc, e.val)), e.next + 1)
       ELSE PFail

\* after "{" or after a ",": one "key": value pair, then "," or "}".
\* A repeated key keeps the last value, as json.load does.
ParseMembers(toks, i, acc) ==
    IF ~(IsTok(toks, i, "string") /\ IsTok(toks, i + 1, ":")) THEN PFail
    ELSE LET e == ParseValue(toks, i + 2)
             acc2 == (toks[i].v :> e.val) @@ acc
         IN IF ~e.ok THEN PFail
            ELSE IF IsTok(toks, e.next, ",")
                 THEN ParseMembers(toks, e.next + 1, acc2)
            ELSE IF IsTok(toks, e.next, "}")
                 THEN POk(Dict(acc2), e.next + 1)
            ELSE PFail

ParseValue(toks, i) ==
    IF i > Len(toks) THEN PFail
    ELSE CASE toks[i].t = "string" -> POk(Str(toks[i].v), i + 1)
           [] toks[i].t = "null" -> POk(None, i + 1)
           [] toks[i].t = "[" ->
                IF IsTok(toks, i + 1, "]") THEN POk(List(<<>>), i + 2)
                ELSE ParseElements(toks, i + 1, <<>>)
           [] toks[i].t = "{" ->
                IF IsTok(toks, i + 1, "}") THEN POk(EmptyDict, i + 2)
                ELSE ParseMembers(toks, i + 1, <<>>)
           [] OTHER -> PFail

\* json.load: [ok, val]; ok = FALSE stands for the JSONDecodeError raised on
\* a text that is not one complete JSON value.
json_load(toks) ==
    LET r == ParseValue(toks, 1)
    IN IF r.ok /\ r.next = Len(toks) + 1
       THEN [ok |-> TRUE, val |-> r.val]
       ELSE [ok |-> FALSE, val |-> None]

(* ------------------------------- text --------------------------------- *)

Whitespace == {" ", "\n", "\t"}

RECURSIVE lstrip(_)
lstrip(s) == IF Len(s) > 0 /\ Head(s) \in Whitespace THEN lstrip(Tail(s)) ELSE s

RECURSIVE rstrip(_)
rstrip(s) ==
    IF Len(s) > 0 /\ s[Len(s)] \in Whitespace
    THEN rstrip(SubSeq(s, 1, Len(s) - 1)) ELSE s

\* str.strip()
strip(s) == rstrip(lstrip(s))

\* str.split(sep) for a one-character separator: the pieces between the
\* separators, empty pieces included.
RECURSIVE SplitFrom(_, _, _, _)
SplitFrom(s, sep, i, cur) ==
    IF i > Len(s) THEN <<cur>>
    ELSE IF s[i] = sep THEN <<cur>> \o SplitFrom(s, sep, i + 1, <<>>)
    ELSE SplitFrom(s, sep, i + 1, Append(cur, s[i]))

split(s, sep) == SplitFrom(s, sep, 1, <<>>)

\* str.splitlines(): as split on the line break, but an empty text has no
\* line and a final line break opens no further line.
splitlines(s) ==
    IF Len(s) = 0 THEN <<>>
    ELSE IF s[Len(s)] = "\n" THEN split(SubSeq(s, 1, Len(s) - 1), "\n")
    ELSE split(s, "\n")

\* [x.strip() for x in parts if x.strip()]
RECURSIVE StripNonEmpty(_)
StripNonEmpty(parts) ==
    IF Len(parts) = 0 THEN <<>>
    ELSE LET h == strip(Head(parts))
         IN IF Len(h) > 0 THEN <<h>> \o StripNonEmpty(Tail(parts))
            ELSE StripNonEmpty(Tail(parts))

\* Path(name).suffix: from the last dot of the name, unless the name has no
\* dot, starts with its only dot, or ends with a dot.
RECURSIVE rfind(_, _, _)
rfind(s, c, i) == IF i = 0 THEN 0 ELSE IF s[i] = c THEN i ELSE rfind(s, c, i - 1)

suffix(name) ==
    LET i == rfind(name, ".", Len(name))
    IN IF 1 < i /\ i < Len(name) THEN SubSeq(name, i, Len(name)) ELSE <<>>

DefaultExt == <<".", "j", "p", "g">>

(* ----------------------------- the store ------------------------------ *)

VARIABLES
    doc,      \* data/recipes.json: [exists, text]
    images,   \* data/images/: file name -> bytes
    uuids,    \* how many identifiers uuid4 has handed out
    saved,    \* the value of the last save_recipes call that wrote it all
    last      \* the handler that ran last and what it showed its caller

vars == <<doc, images, uuids, saved, last>>

NoFile == [exists |-> FALSE, text |-> <<>>]
File(text) == [exists |-> TRUE, text |-> text]

\* Outcomes of the write of the document: complete, refused at open, or cut
\* off after open has emptied the file. The write of an image and the unlink
\* of an existing image are "ok" or "fails".
SaveOutcomes == {"ok", "open_fails", "write_fails"}

\* load_recipes without the try around json.load
MutLoadNoTry(d) ==
    IF d.exists THEN json_load(d.text).val ELSE EmptyDict

\* load_recipes(): the parsed document, or {} when the file is absent or
\* json.load raises.
load_recipes(d) ==
    IF d.exists
    THEN LET r == json_load(d.text) IN IF r.ok THEN r.val ELSE EmptyDict
    ELSE EmptyDict

\* save_recipes with the write inside a try that passes
MutSaveSwallows(recipes, d, sv, io) ==
    CASE io = "ok" ->
            [doc |-> File(json_dumps(recipes)), raised |-> "none", saved |-> recipes]
      [] io = "open_fails" -> [doc |-> d, raised |-> "none", saved |-> sv]
      [] io = "write_fails" -> [doc |-> File(<<>>), raised |-> "none", saved |-> sv]

\* save_recipes(recipes): [doc, raised, saved]. open("w") empties the file
\* before json.dump writes, so a write that fails leaves no JSON value.
save_recipes(recipes, d, sv, io) ==
    CASE io = "ok" ->
            [doc |-> File(json_dumps(recipes)), raised |-> "none", saved |-> recipes]
      [] io = "open_fails" -> [doc |-> d, raised |-> "OSError", saved |-> sv]
      [] io = "write_fails" -> [doc |-> File(<<>>), raised |-> "OSError", saved |-> sv]

\* uuid.uuid4().hex: the n-th identifier, different from every earlier one
uuid4(n) == <<"u" \o ToString(n)>>

\* datetime.utcnow().isoformat() + "Z" at the n-th call
utcnow(n) == <<"t" \o ToString(n), "Z">>

NoImage == [present |-> FALSE, name |-> <<>>, bytes |-> "none"]
Upload(name, bytes) == [present |-> TRUE, name |-> name, bytes |-> bytes]

StrList(xs) == List([i \in 1..Len(xs) |-> Str(xs[i])])

\* The record add_recipe stores under rid
NewRecipe(a, rid, image_filename, n) ==
    Dict((<<"id">> :> Str(rid)) @@ (<<"title">> :> Str(a.title))
         @@ (<<"ingredients">> :> StrList(a.ingredients))
         @@ (<<"steps">> :> Str(a.steps)) @@ (<<"tags">> :> StrList(a.tags))
         @@ (<<"image">> :> image_filename)
         @@ (<<"created_at">> :> Str(utcnow(n))))

\* add_recipe with a fixed key instead of a fresh uuid4
MutAddReusesKey(a, d, imgs, sv, n, io) ==
    LET recipes == load_recipes(d)
        rid == <<"k">>
        s == save_recipes(Dict((rid :> NewRecipe(a, rid, None, n)) @@ recipes.v),
                          d, sv, io.save)
    IN IF recipes.ty # "dict"
       THEN [doc |-> d, images |-> imgs, saved |-> sv, raised |-> "TypeError"]
       ELSE [doc |-> s.doc, images |-> imgs, saved |-> s.saved,
             raised |-> s.raised]

\* add_recipe(title, ingredients, steps, tags, image_bytes, image_name).
\* a: the arguments; n: the index of this call's uuid4 and utcnow; io: the
\* outcomes of the image write and of the document write.
\* Result: [doc, images, saved, raised].
add_recipe(a, d, imgs, sv, n, io) ==
    LET recipes == load_recipes(d)
        rid == uuid4(n)
        has == a.image.present /\ Len(a.image.name) > 0
        ext == IF Len(suffix(a.image.name)) > 0 THEN suffix(a.image.name)
               ELSE DefaultExt
        image_filename == IF has THEN Str(rid \o ext) ELSE None
        imgs2 == IF has THEN ((rid \o ext) :> a.image.bytes) @@ imgs ELSE imgs
        s == save_recipes(
                Dict((rid :> NewRecipe(a, rid, image_filename, n)) @@ recipes.v),
                d, sv, io.save)
    IN IF has /\ io.write = "fails"
       THEN \* write_bytes raises: nothing is stored
            [doc |-> d, images |-> imgs, saved |-> sv, raised |-> "OSError"]
       ELSE IF recipes.ty # "dict"
       THEN \* recipes[rid] = ... on a list
            [doc |-> d, images |-> imgs2, saved |-> sv, raised |-> "TypeError"]
       ELSE [doc |-> s.doc, images |-> imgs2, saved |-> s.saved,
             raised |-> s.raised]

Without(f, k) == [j \in DOMAIN f \ {k} |-> f[j]]

\* delete_recipe(rid) from the pop on, recipes being a dict. io: the
\* outcomes of the unlink (when the file is there; the unlink of a missing
\* file always raises) and of the document write.
\* Result: [doc, images, saved, raised, unlink]; unlink tells what became of
\* the attempt to delete the image file (none: no attempt).
PopAndUnlink(recipes, rid, d, imgs, sv, io) ==
    LET r == Get(recipes, rid)
        rest == Dict(Without(recipes.v, rid))
    IN IF Truthy(r) /\ r.ty # "dict"
       THEN \* r.get on a value that is no dict
            [doc |-> d, images |-> imgs, saved |-> sv,
             raised |-> "AttributeError", unlink |-> "none"]
       ELSE
       LET img == IF Truthy(r) THEN Get(r, <<"image">>) ELSE None
           attempt == Truthy(img)
       IN IF attempt /\ img.ty # "str"
          THEN \* IMAGES_DIR / r["image"] on a value that is no text
               [doc |-> d, images |-> imgs, saved |-> sv,
                raised |-> "TypeError", unlink |-> "none"]
          ELSE
          LET gone == attempt /\ img.v \in DOMAIN imgs /\ io.unlink = "ok"
              imgs2 == IF gone THEN Without(imgs, img.v) ELSE imgs
              s == save_recipes(rest, d, sv, io.save)
          IN [doc |-> s.doc, images |-> imgs2, saved |-> s.saved,
              raised |-> s.raised,
              unlink |-> IF ~attempt THEN "none"
                         ELSE IF gone THEN "done" ELSE "failed"]

NotADict(d, imgs, sv) ==
    [doc |-> d, images |-> imgs, saved |-> sv, raised |-> "TypeError",
     unlink |-> "none"]

\* delete_recipe that never unlinks the image file
MutDeleteKeepsImage(rid, d, imgs, sv, io) ==
    LET recipes == load_recipes(d)
    IN IF recipes.ty # "dict" THEN NotADict(d, imgs, sv)
       ELSE [PopAndUnlink(recipes, rid, d, imgs, sv, io) EXCEPT !.images = imgs]

\* delete_recipe with recipes.pop(rid), which raises on an absent key
MutDeletePopNoDefault(rid, d, imgs, sv, io) ==
    LET recipes == load_recipes(d)
    IN IF recipes.ty # "dict" THEN NotADict(d, imgs, sv)
       ELSE IF rid \notin DOMAIN recipes.v
       THEN [doc |-> d, images |-> imgs, saved |-> sv, raised |-> "KeyError",
             unlink |-> "none"]
       ELSE PopAndUnlink(recipes, rid, d, imgs, sv, io)

\* delete_recipe(rid)
delete_recipe(rid, d, imgs, sv, io) ==
    LET recipes == load_recipes(d)
    IN IF recipes.ty # "dict"
       THEN \* list.pop(rid, None)
            NotADict(d, imgs, sv)
       ELSE PopAndUnlink(recipes, rid, d, imgs, sv, io)

\* list(recipes.values())
Values(recipes) ==
    LET keys == SetToSeq(DOMAIN recipes.v)
    IN [i \in 1..Len(keys) |-> recipes.v[keys[i]]]

\* An export of the list of recipes instead of the mapping
MutExportValues(d) == json_dumps(List(Values(load_recipes(d))))

\* export_recipes_bytes(): the JSON text of what load_recipes returns
export_recipes_bytes(d) == json_dumps(load_recipes(d))

(* ------------------------------ search -------------------------------- *)

LowerOf == [A |-> "a", B |-> "b", P |-> "p", Q |-> "q", T |-> "t"]

\* str.lower()
LowerChar(c) == IF c \in DOMAIN LowerOf THEN LowerOf[c] ELSE c

RECURSIVE lower(_)
lower(s) ==
    IF Len(s) = 0 THEN <<>> ELSE <<LowerChar(Head(s))>> \o lower(Tail(s))

\* q in s, for two texts
Contains(q, s) ==
    \E i \in 0..(Len(s) - Len(q)) : SubSeq(s, i + 1, i + Len(q)) = q

\* r.get(key, default)
GetOr(r, key, default) == IF key \in DOMAIN r.v THEN r.v[key] ELSE default

\* A comprehension that looks at the title only
MutMatchesTitleOnly(q, r) ==
    Contains(q, lower(GetOr(r, <<"title">>, Str(<<>>)).v))

\* The condition of the list comprehension, q already lower-cased
Matches(q, r) ==
    LET tags == GetOr(r, <<"tags">>, List(<<>>)).v
        ings == GetOr(r, <<"ingredients">>, List(<<>>)).v
    IN \/ Contains(q, lower(GetOr(r, <<"title">>, Str(<<>>)).v))
       \/ \E i \in 1..Len(tags) : Contains(q, lower(tags[i].v))
       \/ \E i \in 1..Len(ings) : Contains(q, lower(ings[i].v))

\* [r for r in recipes_list if ...]
RECURSIVE Comprehension(_, _)
Comprehension(recipes_list, q) ==
    IF Len(recipes_list) = 0 THEN <<>>
    ELSE IF Matches(q, Head(recipes_list))
         THEN <<Head(recipes_list)>> \o Comprehension(Tail(recipes_list), q)
    ELSE Comprehension(Tail(recipes_list), q)

\* The search filter over recipes_list
Filter(recipes_list, search_q) ==
    IF Len(search_q) > 0
    THEN Comprehension(recipes_list, lower(search_q))
    ELSE recipes_list

(* ------------------------------ handlers ------------------------------ *)

\* What the last handler run showed its caller: the exception that left it
\* (raised), the message it put on the page (msg), what became of the
\* image file it tried to delete (unlink) and the list it rendered (view).
NoLast ==
    [op |-> "none", raised |-> "none", msg |-> "none", unlink |-> "none",
     view |-> <<>>]

\* What the user types into the add form.
FormInputs ==
    { [title |-> <<>>, ingredients_text |-> <<"e">>, steps |-> <<"m">>,
       tags_text |-> <<"q">>, image |-> Upload(<<"a", ".", "g">>, "B")],
      [title |-> <<" ", "\n">>, ingredients_text |-> <<>>, steps |-> <<>>,
       tags_text |-> <<>>, image |-> NoImage],
      [title |-> <<" ", "P", "a">>, ingredients_text |-> <<"e", "\n", " ", "f">>,
       steps |-> <<"m", " ">>, tags_text |-> <<"q", ",", " ", ",", "b">>,
       image |-> NoImage],
      [title |-> <<"T">>, ingredients_text |-> <<>>, steps |-> <<>>,
       tags_text |-> <<>>, image |-> Upload(<<"a", ".", "g">>, "B")] }

\* The arguments the submit handler passes to add_recipe
FormArgs(form) ==
    [title |-> strip(form.title),
     ingredients |-> StripNonEmpty(splitlines(form.ingredients_text)),
     steps |-> strip(form.steps),
     tags |-> StripNonEmpty(split(form.tags_text, ",")),
     image |-> form.image]

\* A title check without the strip
MutSubmitNoStrip(form) == Len(form.title) > 0

\* not title.strip() is false
TitleGiven(form) == Len(strip(form.title)) > 0

\* Submit of add_recipe_form
SubmitAdd(form, io) ==
    IF ~TitleGiven(form)
    THEN /\ last' = [NoLast EXCEPT !.op = "Add", !.msg = "ValidationError"]
         /\ UNCHANGED <<doc, images, uuids, saved>>
    ELSE /\ uuids < MaxAdds
         /\ LET r == add_recipe(FormArgs(form), doc, images, saved, uuids + 1, io)
            IN /\ doc' = r.doc
               /\ images' = r.images
               /\ saved' = r.saved
               /\ uuids' = uuids + 1
               /\ last' = [NoLast EXCEPT !.op = "Add", !.raised = r.raised,
                              !.msg = IF r.raised = "none" THEN "saved"
                                      ELSE "none"]

\* Identifiers a caller may pass to delete_recipe
Ids == {uuid4(n) : n \in 1..MaxAdds} \cup {<<"k">>}

\* Click on a delete button (or any other call of delete_recipe)
Delete(rid, io) ==
    LET r == delete_recipe(rid, doc, images, saved, io)
    IN /\ doc' = r.doc
       /\ images' = r.images
       /\ saved' = r.saved
       /\ UNCHANGED uuids
       /\ last' = [NoLast EXCEPT !.op = "Delete", !.raised = r.raised,
                      !.unlink = r.unlink]

Recipe(rid, title, tags, image) ==
    Dict((<<"id">> :> Str(rid)) @@ (<<"title">> :> Str(title))
         @@ (<<"ingredients">> :> List(<<>>)) @@ (<<"steps">> :> Str(<<>>))
         @@ (<<"tags">> :> StrList(tags)) @@ (<<"image">> :> image)
         @@ (<<"created_at">> :> Str(<<"t0", "Z">>)))

\* Files a user may hand to the import uploader, besides the export of the
\* current document: a cut-off text, a JSON list, an object whose value is
\* no record, and a recipe naming an image nobody wrote.
CraftedUploads ==
    { <<Tok("{")>>,
      json_dumps(List(<<>>)),
      json_dumps(Dict(<<"k">> :> Str(<<"x">>))),
      json_dumps(Dict(<<"k">> :>
          Recipe(<<"k">>, <<"G">>, <<>>, Str(<<"g", ".", "g">>)))) }

\* The import handler of the sidebar
import_json(upload, d, sv, io) ==
    LET data == json_load(upload)
        s == save_recipes(data.val, d, sv, io)
    IN IF ~data.ok
       THEN [doc |-> d, saved |-> sv, msg |-> "ParseError"]
       ELSE [doc |-> s.doc, saved |-> s.saved,
             msg |-> IF s.raised = "none" THEN "imported" ELSE "ParseError"]

Import(upload, io) ==
    LET r == import_json(upload, doc, saved, io)
    IN /\ doc' = r.doc
       /\ saved' = r.saved
       /\ UNCHANGED <<images, uuids>>
       /\ last' = [NoLast EXCEPT !.op = "Import", !.msg = r.msg]

\* Load and filter of the list view: [raised, view]
render(d, search_q) ==
    LET recipes == load_recipes(d)
    IN IF recipes.ty # "dict"
       THEN [raised |-> "AttributeError", view |-> <<>>]
       ELSE IF \E k \in DOMAIN recipes.v : recipes.v[k].ty # "dict"
       THEN [raised |-> "AttributeError", view |-> <<>>]
       ELSE [raised |-> "none", view |-> Filter(Values(recipes), search_q)]

Render(search_q) ==
    LET r == render(doc, search_q)
    IN /\ last' = [NoLast EXCEPT !.op = "Render", !.raised = r.raised,
                      !.view = r.view]
       /\ UNCHANGED <<doc, images, uuids, saved>>

Init ==
    /\ doc = NoFile
    /\ images = <<>>
    /\ uuids = 0
    /\ saved = EmptyDict
    /\ last = NoLast

\* At most one file operation fails in one handler run, and only an
\* operation that runs has an outcome: no file is touched on a blank title,
\* an image is written only when one is uploaded, a file is unlinked only by
\* delete_recipe, and an upload that json.load rejects is never saved.
Outcomes(save, unlink) == [save |-> save, write |-> "ok", unlink |-> unlink]
AddIO(form) ==
    IF ~TitleGiven(form) THEN {Outcomes("ok", "ok")}
    ELSE {Outcomes(s, "ok") : s \in SaveOutcomes}
         \cup (IF form.image.present
               THEN {[save |-> "ok", write |-> "fails", unlink |-> "ok"]}
               ELSE {})
DeleteIO ==
    {Outcomes(s, "ok") : s \in SaveOutcomes} \cup {Outcomes("ok", "fails")}
ImportIO(upload) ==
    IF json_load(upload).ok THEN SaveOutcomes ELSE {"ok"}

Next ==
    \/ \E form \in FormInputs : \E io \in AddIO(form) : SubmitAdd(form, io)
    \/ \E rid \in Ids : \E io \in DeleteIO : Delete(rid, io)
    \/ \E upload \in CraftedUploads \cup {export_recipes_bytes(doc)} :
          \E io \in ImportIO(upload) : Import(upload, io)

Spec == Init /\ [][Next]_vars

(* ------------------- the search filter on its own --------------------- *)

\* Recipes to search: two titles, three lists of tags, three of ingredients
SearchTitles == {<<"P", "a">>, <<"Q">>}
SearchTags == {<<>>, << <<"q">> >>, << <<"B">>, <<"a", "Q">> >>}
SearchIngredients == {<<>>, << <<"b", "Q">> >>, << <<"T">> >>}

SearchRecipe(rid, title, tags, ings) ==
    Dict((<<"id">> :> Str(rid)) @@ (<<"title">> :> Str(title))
         @@ (<<"ingredients">> :> StrList(ings)) @@ (<<"steps">> :> Str(<<"q">>))
         @@ (<<"tags">> :> StrList(tags)) @@ (<<"image">> :> None)
         @@ (<<"created_at">> :> Str(<<"t0", "Z">>)))

SearchRecipes(rid) ==
    {SearchRecipe(rid, t, g, i) :
        t \in SearchTitles, g \in SearchTags, i \in SearchIngredients}

\* Collections of one or two recipes
SearchCollections ==
    {Dict(<<"k1">> :> r) : r \in SearchRecipes(<<"k1">>)}
    \cup {Dict((<<"k1">> :> r1) @@ (<<"k2">> :> r2)) :
            r1 \in SearchRecipes(<<"k1">>), r2 \in SearchRecipes(<<"k2">>)}

\* What the user types into the search box
Queries ==
    {<<>>, <<"q">>, <<"Q">>, <<"a", "q">>, <<"A", "Q">>, <<"b">>, <<"P">>,
     <<"t">>, <<"x">>, <<"p", "A">>}

InitFilter ==
    /\ \E c \in SearchCollections : doc = File(json_dumps(c)) /\ saved = c
    /\ images = <<>>
    /\ uuids = 0
    /\ last = NoLast

NextFilter == \E q \in Queries : Render(q)

SpecFilter == InitFilter /\ [][NextFilter]_vars

(* ------------------------------ claims -------------------------------- *)
(* In the step formulas B is what Load returns before the step and A what  *)
(* it returns after it.                                                    *)

IsDict(x) == x.ty = "dict"
Keys(x) == IF IsDict(x) THEN DOMAIN x.v ELSE {}
Field(r, name) == r.v[<<name>>]

\* The document is one complete JSON value
Parseable(d) == d.exists /\ json_load(d.text).ok

\* A title of no character, or of white space only
Blank(title) == \A i \in 1..Len(title) : title[i] \in {" ", "\n", "\t"}

\* C1: an add of valid fields without an image, on a document that Load
\* reads as a collection C and with the document write succeeding, returns
\* normally, and Load then yields C with every recipe unchanged plus exactly
\* one new recipe: its key is not a key of C, its id is its key, its title,
\* ingredients, steps and tags are the arguments given to add_recipe, its
\* image is null and its created_at ends in "Z".
C1_AddThenLoad ==
    [][last'.op = "Add" =>
        LET B == load_recipes(doc)
            A == load_recipes(doc')
        IN \A form \in FormInputs : \A io \in AddIO(form) :
            (/\ ~Blank(form.title)
             /\ ~form.image.present
             /\ io.save = "ok"
             /\ IsDict(B)
             /\ SubmitAdd(form, io))
            => /\ last'.raised = "none"
               /\ IsDict(A)
               /\ \A k \in Keys(B) : k \in Keys(A) /\ A.v[k] = B.v[k]
               /\ Cardinality(Keys(A) \ Keys(B)) = 1
               /\ \A rid \in Keys(A) \ Keys(B) :
                    LET r == A.v[rid]
                        a == FormArgs(form)
                    IN /\ IsDict(r)
                       /\ Field(r, "id") = Str(rid)
                       /\ Field(r, "title") = Str(a.title)
                       /\ Field(r, "ingredients") = StrList(a.ingredients)
                       /\ Field(r, "steps") = Str(a.steps)
                       /\ Field(r, "tags") = StrList(a.tags)
                       /\ Field(r, "image") = None
                       /\ LET t == Field(r, "created_at").v
                          IN Len(t) > 1 /\ t[Len(t)] = "Z"
    ]_vars

\* An add without image has just put a second recipe next to an imported one.
C1_Witness ==
    /\ last.op = "Add"
    /\ last.msg = "saved"
    /\ uuids > 0
    /\ LET C == load_recipes(doc)
       IN /\ IsDict(C)
          /\ <<"k">> \in Keys(C)
          /\ uuid4(uuids) \in Keys(C)
          /\ Field(C.v[uuid4(uuids)], "image") = None
          /\ Field(C.v[uuid4(uuids)], "tags") = StrList(<< <<"q">>, <<"b">> >>)

\* C2: a submit whose title is empty or white space only shows the
\* validation error and changes neither the document nor the image
\* directory, whatever the other fields and the uploaded image are.
C2_BlankTitleRejected ==
    [][last'.op = "Add" =>
        \A form \in FormInputs : \A io \in AddIO(form) :
            (Blank(form.title) /\ SubmitAdd(form, io))
            => /\ last'.msg = "ValidationError"
               /\ last'.raised = "none"
               /\ doc' = doc
               /\ images' = images
    ]_vars

\* A blank title has just been refused while recipes and an image are stored.
C2_Witness ==
    /\ last.op = "Add"
    /\ last.msg = "ValidationError"
    /\ Keys(load_recipes(doc)) # {}
    /\ DOMAIN images # {}

\* The image file a stored value refers to: <<name>> when its image field is
\* a non-empty text, <<>> otherwise
ImageRef(r) ==
    IF IsDict(r) /\ <<"image">> \in DOMAIN r.v /\ Field(r, "image").ty = "str"
       /\ Len(Field(r, "image").v) > 0
    THEN <<Field(r, "image").v>> ELSE <<>>

\* Collection A is collection B without rid
RemovedExactly(B, A, rid) ==
    /\ IsDict(A)
    /\ Keys(A) = Keys(B) \ {rid}
    /\ \A k \in Keys(A) : A.v[k] = B.v[k]

\* The unlink of rid's image file is tried and fails with the file there
UnlinkFailed(B, rid, io) ==
    /\ io.unlink = "fails"
    /\ ImageRef(B.v[rid]) # <<>>
    /\ ImageRef(B.v[rid])[1] \in DOMAIN images

\* C3 as claimed: a delete of a present id that returns normally removes
\* exactly that recipe and, if the recipe referred to an image, the image
\* file does not exist afterwards.
C3_AsClaimed ==
    [][last'.op = "Delete" /\ last'.raised = "none" =>
        LET B == load_recipes(doc)
            A == load_recipes(doc')
        IN \A rid \in Keys(B) \cap Ids : \A io \in DeleteIO :
            Delete(rid, io)
            => /\ RemovedExactly(B, A, rid)
               /\ \A f \in {ImageRef(B.v[rid])} :
                    f # <<>> => f[1] \notin DOMAIN images'
    ]_vars

\* C3, amended: a delete of a present id that returns normally removes
\* exactly that recipe, every other recipe staying as it was; if the recipe
\* referred to an image, the image file does not exist afterwards unless
\* the attempt to delete it failed, in which case the failure is swallowed
\* and the file stays.
C3_DeleteRemoves ==
    [][last'.op = "Delete" /\ last'.raised = "none" =>
        LET B == load_recipes(doc)
            A == load_recipes(doc')
        IN \A rid \in Keys(B) \cap Ids : \A io \in DeleteIO :
            Delete(rid, io)
            => /\ RemovedExactly(B, A, rid)
               /\ \A f \in {ImageRef(B.v[rid])} :
                    f # <<>> =>
                        IF UnlinkFailed(B, rid, io)
                        THEN f[1] \in DOMAIN images'
                        ELSE f[1] \notin DOMAIN images'
    ]_vars

\* A delete has just returned after removing the image file of the recipe
\* it deleted; another recipe is left and no image file is.
C3_Witness ==
    /\ last.op = "Delete"
    /\ last.raised = "none"
    /\ last.unlink = "done"
    /\ Cardinality(Keys(load_recipes(doc))) = 1
    /\ DOMAIN images = {}

AllOk == Outcomes("ok", "ok")

EmptyObjectFile == File(<<Tok("{"), Tok("}")>>)

Uploads == CraftedUploads \cup {export_recipes_bytes(doc)}

\* C5: importing the export of the current document, with the document
\* write succeeding, reports success, and Load returns afterwards what it
\* returned before: the same keys with the same value under each.
C5_RoundTrip ==
    [][last'.op = "Import" =>
        (Import(export_recipes_bytes(doc), "ok")
         => /\ last'.msg = "imported"
            /\ load_recipes(doc') = load_recipes(doc)
            /\ Keys(load_recipes(doc')) = Keys(load_recipes(doc)))
    ]_vars

\* An import has just succeeded and left a collection of two recipes, one of
\* them made by an add with an image: only the export of that collection
\* holds it.
C5_Witness ==
    /\ last.op = "Import"
    /\ last.msg = "imported"
    /\ LET C == load_recipes(doc)
       IN /\ Cardinality(Keys(C)) = 2
          /\ uuid4(1) \in Keys(C)
          /\ ImageRef(C.v[uuid4(1)]) # <<>>

IsStr(x) == x.ty = "str"
IsStrList(x) == x.ty = "list" /\ \A i \in 1..Len(x.v) : IsStr(x.v[i])

\* The Recipe record of the persisted document
RecipeShaped(r) ==
    /\ IsDict(r)
    /\ DOMAIN r.v = {RecipeFields[i] : i \in 1..Len(RecipeFields)}
    /\ IsStr(Field(r, "id")) /\ IsStr(Field(r, "title"))
    /\ IsStr(Field(r, "steps")) /\ IsStr(Field(r, "created_at"))
    /\ IsStrList(Field(r, "ingredients")) /\ IsStrList(Field(r, "tags"))
    /\ (IsStr(Field(r, "image")) \/ Field(r, "image") = None)

\* The text is valid JSON of the Recipe Collection shape
CollectionShaped(text) ==
    LET data == json_load(text)
    IN /\ data.ok
       /\ IsDict(data.val)
       /\ \A k \in Keys(data.val) : RecipeShaped(data.val.v[k])

\* C6 as claimed: an import of a text that is not valid JSON of the Recipe
\* Collection shape reports a parse error and leaves the document as it was.
C6_AsClaimed ==
    [][last'.op = "Import" =>
        \A upload \in Uploads : \A io \in ImportIO(upload) :
            (~CollectionShaped(upload) /\ Import(upload, io))
            => last'.msg = "ParseError" /\ doc' = doc
    ]_vars

\* C8 as claimed: whenever a step puts a recipe with an image reference into
\* the collection Load returns (a new key, or a changed value under a key),
\* a file of that name is in the image directory after the step.
C8_AsClaimed ==
    [][LET B == load_recipes(doc)
           A == load_recipes(doc')
       IN \A k \in Keys(A) :
            (/\ ImageRef(A.v[k]) # <<>>
             /\ (k \notin Keys(B) \/ B.v[k] # A.v[k]))
            => ImageRef(A.v[k])[1] \in DOMAIN images'
    ]_vars

DeleteReachesSave(B, rid) ==
    /\ IsDict(B)
    /\ LET r == Get(B, rid)
       IN Truthy(r) =>
            /\ IsDict(r)
            /\ Truthy(Get(r, <<"image">>)) => IsStr(Get(r, <<"image">>))

SaveFails == {Outcomes(s, "ok") : s \in SaveOutcomes \ {"ok"}}
UnlinkFails == Outcomes("ok", "fails")

\* C10 as claimed: when the document write fails in an add or a delete, no
\* error leaves the handler; and when the unlink of the image file fails in
\* a delete, no error leaves it and the recipe is gone from the collection.
C10_AsClaimed ==
    [][LET B == load_recipes(doc)
           A == load_recipes(doc')
       IN /\ last'.op = "Add" =>
               \A form \in FormInputs : \A io \in AddIO(form) \cap SaveFails :
                   (IsDict(B) /\ SubmitAdd(form, io))
                   => last'.raised = "none"
          /\ last'.op = "Delete" =>
               /\ \A rid \in Ids : \A io \in SaveFails :
                    (DeleteReachesSave(B, rid) /\ Delete(rid, io))
                    => last'.raised = "none"
               /\ \A rid \in Keys(B) \cap Ids :
                    (/\ UnlinkFailed(B, rid, UnlinkFails)
                     /\ DeleteReachesSave(B, rid)
                     /\ Delete(rid, UnlinkFails))
                    => last'.raised = "none" /\ rid \notin Keys(A)
    ]_vars

\* C10, amended: a failed document write is not swallowed by save_recipes,
\* add_recipe or delete_recipe: OSError leaves the add and the delete
\* handler. A failed unlink of the image file in a delete is swallowed: no
\* error leaves the handler, the file stays, and the recipe is gone from
\* the collection (the document write succeeding).
C10_WriteErrorsSurface ==
    [][LET B == load_recipes(doc)
           A == load_recipes(doc')
       IN /\ last'.op = "Add" =>
               \A form \in FormInputs : \A io \in AddIO(form) \cap SaveFails :
                   (IsDict(B) /\ SubmitAdd(form, io))
                   => last'.raised = "OSError"
          /\ last'.op = "Delete" =>
               /\ \A rid \in Ids : \A io \in SaveFails :
                    (DeleteReachesSave(B, rid) /\ Delete(rid, io))
                    => last'.raised = "OSError"
               /\ \A rid \in Keys(B) \cap Ids :
                    (/\ UnlinkFailed(B, rid, UnlinkFails)
                     /\ DeleteReachesSave(B, rid)
                     /\ Delete(rid, UnlinkFails))
                    => /\ last'.raised = "none"
                       /\ rid \notin Keys(A)
                       /\ ImageRef(B.v[rid])[1] \in DOMAIN images'
    ]_vars

\* A delete has just swallowed the failed unlink of an image file: it
\* returned, the file is still there and no recipe is left.
C10_Witness ==
    /\ last.op = "Delete"
    /\ last.unlink = "failed"
    /\ last.raised = "none"
    /\ DOMAIN images # {}
    /\ load_recipes(doc) = EmptyDict
    /\ Parseable(doc)

\* Two characters that are the same letter, whatever their case
SameLetter(a, b) ==
    \/ a = b
    \/ {a, b} \in {{"A", "a"}, {"B", "b"}, {"P", "p"}, {"Q", "q"}, {"T", "t"}}

\* q occurs in s, case ignored
OccursIn(q, s) ==
    \E i \in 0..(Len(s) - Len(q)) :
        \A j \in 1..Len(q) : SameLetter(q[j], s[i + j])

InTitle(q, r) == OccursIn(q, Field(r, "title").v)
InTags(q, r) ==
    \E i \in 1..Len(Field(r, "tags").v) : OccursIn(q, Field(r, "tags").v[i].v)
InIngredients(q, r) ==
    \E i \in 1..Len(Field(r, "ingredients").v) :
        OccursIn(q, Field(r, "ingredients").v[i].v)

Elements(seq) == {seq[i] : i \in 1..Len(seq)}

\* C7: the rendered list holds, once each, exactly the recipes in which the
\* query occurs, case ignored, in the title, in a tag or in an ingredient
\* line; the empty query yields every recipe; a query that occurs in the
\* tags of one recipe and nowhere else yields that recipe alone.
C7_FilterMatches ==
    [][last'.op = "Render" =>
        LET B == load_recipes(doc)
            all == {B.v[k] : k \in Keys(B)}
        IN \A q \in Queries :
            Render(q)
            => LET view == last'.view
               IN /\ last'.raised = "none"
                  /\ Elements(view) =
                        {r \in all : InTitle(q, r) \/ InTags(q, r)
                                     \/ InIngredients(q, r)}
                  /\ Len(view) = Cardinality(Elements(view))
                  /\ q = <<>> => Elements(view) = all
                  /\ \A r \in all :
                        (/\ InTags(q, r)
                         /\ \A o \in all :
                              /\ ~InTitle(q, o)
                              /\ ~InIngredients(q, o)
                              /\ o # r => ~InTags(q, o))
                        => view = <<r>>
    ]_vars

\* The list just rendered holds one of two recipes, found by a query that
\* occurs in a tag of it and nowhere else.
C7_Witness ==
    /\ last.op = "Render"
    /\ Len(last.view) = 1
    /\ Cardinality(Keys(load_recipes(doc))) = 2
    /\ \E q \in Queries :
        /\ render(doc, q).view = last.view
        /\ InTags(q, last.view[1])
        /\ \A k \in Keys(load_recipes(doc)) :
            LET o == load_recipes(doc).v[k]
            IN /\ ~InTitle(q, o)
               /\ ~InIngredients(q, o)
               /\ o # last.view[1] => ~InTags(q, o)

====
